---- MODULE Spec2Model ----
(***************************************************************************)
(* A state-machine model of the dice game's client-side orchestration:     *)
(* the useEncryptedDiceGame hook (contracts/EncryptedDiceGameAddresses.ts), *)
(* the roll handlers of components/GameInterface.tsx and the demo page     *)
(* state they call back into.                                              *)
(*                                                                         *)
(* The wallet, the ledger and the encryption client are the environment:   *)
(* they answer a pending signature, a broadcast transaction and a pending  *)
(* encryption with any of the outcomes they can produce.                   *)
(***************************************************************************)
EXTENDS Integers, Sequences, FiniteSets, TLC

\* ------------------------------------------------------------------ bounds

\* operations the presentation layer invokes in one run: clicks on Roll and
\* direct calls of the hook's startGame and resolveGame
MaxOps == 2
\* the highest face a demo die shows
MaxFace == 2
\* rolls in a run in which the dice show all six faces
MaxDiceRolls == 1

\* ------------------------------------------------------- program constants

\* the one chain the game is deployed on (EncryptedDiceGameAddresses)
HardhatChainId == 31337
\* a chain the wallet can be on where the game is not deployed
OtherChainId == 1
\* useAccount().chainId while no wallet is connected (falsy, like undefined)
NoChain == 0
\* payout of a won demo roll, in hundredths of the stake (stake * 1.95)
PayoutPct == 195
\* useState(1000): the demo ROLL balance a page starts with
InitialRollBalance == 1000

\* const exchangeRate = 1000: ROLL per ETH, in the Swap form and in the page
ExchangeRate == 1000
\* useState(5.0): the demo ETH balance a page starts with
InitialEthBalance == 5

Undefined == "undefined"
Null == "null"

ChainIds == {HardhatChainId, OtherChainId}
Accounts == {"0xA"}
\* a second account of the same wallet
OtherAccounts == {"0xB"}
AllAccounts == Accounts \cup OtherAccounts
Predictions == {"even", "odd"}

\* arguments a caller of the hook passes to startGame (diceCount, prediction,
\* stake): two valid triples, a dice count out of range, a stake of zero
StartInputs == {<<1, "even", 10>>, <<4, "odd", 20>>, <<2, "odd", 0>>}
\* arguments a caller of the hook passes to resolveGame
GameIds == 0..1
\* what the Roll form holds at a click (stakeAmount, diceMode, prediction);
\* diceMode is typed 1 | 2 | 3
RollInputs == {<<10, 1, "even">>, <<20, 2, "odd">>, <<0, 3, "even">>}
DiceModes == {1, 2, 3}
\* faces a die shows in this model: 1..MaxFace of Math.floor(Math.random() * 6) + 1
Faces == 1..MaxFace
\* Math.floor(Math.random() * 6) + 1: every face of a die
DieFaces == 1..6
\* what the Roll form holds at a click where the dice are rolled with all their
\* faces: one valid form for each dice mode
DiceRollInputs == {<<10, 2, "even">>, <<20, 1, "odd">>, <<10, 3, "odd">>}
\* what an awaited encryptWith() can do: return a result, return undefined, throw
EncryptOutcomes == {"ok", "undefined", "throw"}
\* arguments a caller of the hook passes to swapETHForROLL (ethAmount)
SwapInputs == {1, 0}
\* arguments the Mint button passes to mintTokens (amount): mintTokens(1000)
MintInputs == {1000}
\* what the Swap form holds at a click (fromToken, parseFloat(swapAmount)): ETH in
\* whole ETH, ROLL in whole ROLL; 1000 ROLL is what the Max button fills in on a
\* fresh page
SwapFormInputs == {<<"ETH", 1>>, <<"ROLL", 1000>>, <<"ETH", 0>>, <<"ROLL", 2000>>}

VARIABLES
  chainId,        \* useAccount().chainId, NoChain while no wallet is connected
  walletAddress,  \* useAccount().address
  isLoading,      \* the hook's own useState(false)
  error,          \* the hook's useState<string | null>(null)
  gameHistory,    \* the hook's useState<GameRecord[]>([]), newest first
  gameCounter,    \* data of useReadContract("gameCounter"), as Number(gameCounter || 0)
  chainCounter,   \* the deployed contract's gameCounter
  writes,         \* every writeContract() issued, in order, with its lifecycle
  refreshTimers,  \* setTimeout(refresh, 2000) callbacks not yet run
  calls,          \* invocations of the hook's operations, in order
  rolls,          \* clicks on Roll (handleRoll invocations), in order
  isRolling,      \* GameInterface's useState(false)
  rollBalance,    \* the page's demo ROLL balance, in hundredths of a ROLL
  demoHistory,    \* the page's useState<GameRecord[]>([]), oldest first
  readPending,    \* the read queries are fetching for a new key
  ethBalance,     \* the page's demo ETH balance, in thousandths of an ETH
  swaps,          \* clicks on Swap (handleSwap invocations), in order
  isSwapping,     \* GameInterface's useState(false)
  chainBalance,   \* per account, the version of its balance handle in the contract
  balanceCache,   \* per account, the data of useReadContract("getBalance", [account])
  decryptResults, \* results of useFHEDecrypt: decrypted handles with their scope
  decrypting,     \* the decryption useFHEDecrypt is running, if any
  currentPage,    \* Home's useState<string>("Home")
  walletConnected,\* Home's useState(false), set from useAccount().isConnected
  navigations     \* targets of the handleNavigate calls waiting in their 800 ms delay

vars == <<chainId, walletAddress, isLoading, error, gameHistory, gameCounter,
          chainCounter, writes, refreshTimers, calls, rolls, isRolling,
          rollBalance, demoHistory, readPending, ethBalance, swaps, isSwapping,
          chainBalance, balanceCache, decryptResults, decrypting, currentPage,
          walletConnected, navigations>>

swapVars == <<ethBalance, swaps, isSwapping>>
\* the state of the Home component that says which page is shown
pageVars == <<currentPage, walletConnected, navigations>>
uiVars == <<rolls, isRolling, rollBalance, demoHistory, swapVars, pageVars>>
envVars == <<chainId, walletAddress>>
\* the contract's state and what the hook has cached of it
cacheVars == <<chainBalance, balanceCache, decryptResults, decrypting>>
ledgerVars == <<chainCounter, gameCounter, readPending, refreshTimers, cacheVars>>

\* ------------------------------------------------------------ pure helpers

\* getEncryptedDiceGameAddress: the address registered for a chain id
getEncryptedDiceGameAddress(c) ==
  IF c = HardhatChainId THEN "0x5FbD" ELSE Undefined

\* const contractAddress = chainId ? getEncryptedDiceGameAddress(chainId) : undefined
contractAddress ==
  IF chainId # NoChain THEN getEncryptedDiceGameAddress(chainId) ELSE Undefined

isContractAvailable == contractAddress # Undefined

\* const predictionValue = prediction === "even" ? 0 : 1
PredictionValue(p) == IF p = "even" THEN 0 ELSE 1

\* parseEther(n.toString()): n * 10^18, kept as mantissa and exponent
ParseEther(n) == [mantissa |-> n, exp |-> 18]

\* no encryption result yet
NoEnc == [handles |-> <<>>, inputProof |-> [req |-> <<0, "none">>]]

\* encryptWith as it would be if it handed out one memoised request per kind
EncryptWithMemoised(c, kind, value) ==
  [handles |-> <<[req |-> <<0, kind>>, plain |-> value]>>,
   inputProof |-> [req |-> <<0, kind>>]]

\* await encryptWith(builder => builder.add8(v) | builder.add256(v)): the request
\* made by call c for one value of one bit-width returns its handles, one per
\* added value in order, and the proof of that request
EncryptWith(c, kind, value) ==
  [handles |-> <<[req |-> <<c, kind>>, plain |-> value]>>,
   inputProof |-> [req |-> <<c, kind>>]]

\* ("0x" + Buffer.from(bytes).toString("hex")) as `0x${string}`
ToHex(bytes) == [hex |-> bytes]

\* the args of the startGame transaction with prediction and stake swapped
StartGameArgsSwapped(d, encryptedPrediction, encryptedStake) ==
  <<d, ToHex(encryptedStake.handles[1]), ToHex(encryptedStake.inputProof),
       ToHex(encryptedPrediction.handles[1]), ToHex(encryptedPrediction.inputProof)>>

\* args: [diceCount, prediction handle, prediction proof, stake handle, stake proof]
StartGameArgs(d, encryptedPrediction, encryptedStake) ==
  <<d, ToHex(encryptedPrediction.handles[1]), ToHex(encryptedPrediction.inputProof),
       ToHex(encryptedStake.handles[1]), ToHex(encryptedStake.inputProof)>>

\* setGameHistory as it would be if it replaced an entry with the same id
AddToHistoryById(newGame, prev) ==
  IF \E i \in DOMAIN prev : prev[i].id = newGame.id
    THEN [i \in DOMAIN prev |-> IF prev[i].id = newGame.id THEN newGame ELSE prev[i]]
    ELSE <<newGame>> \o prev

\* setGameHistory(prev => [newGame, ...prev])
AddToHistory(newGame, prev) == <<newGame>> \o prev

NoOutcome == [present |-> FALSE, result |-> <<>>, won |-> FALSE, payout |-> 0]

\* newGame as it would be with isResolved: true
NewGameResolved(c, d, p, s, ctr) ==
  [id |-> ctr, diceCount |-> d, prediction |-> p, stake |-> s,
   outcome |-> NoOutcome, isResolved |-> TRUE, call |-> c]

\* const newGame: GameRecord = { id: Number(gameCounter || 0), ..., isResolved: false }
\* (call is the invocation that created the record; it stands for timestamp)
NewGame(c, d, p, s, ctr) ==
  [id |-> ctr, diceCount |-> d, prediction |-> p, stake |-> s,
   outcome |-> NoOutcome, isResolved |-> FALSE, call |-> c]

\* The lifecycle a GameRecord can express: its only status field is isResolved.
Lifecycle(g) == IF g.isResolved THEN "RESOLVED" ELSE "PENDING"

TerminalStates == {"confirmed", "reverted", "rejected"}

\* writeContract as it would be if a new request took over the slot of the tracked one
WriteContractReplacing(w, fn, c, arg) ==
  IF w = <<>>
    THEN <<[fn |-> fn, call |-> c, arg |-> arg, state |-> "signing"]>>
    ELSE [w EXCEPT ![Len(w)] = [fn |-> fn, call |-> c, arg |-> arg, state |-> "signing"]]

\* writeContract({...}): a new request goes to the wallet; the hook never waits for it
WriteContract(w, fn, c, arg) ==
  Append(w, [fn |-> fn, call |-> c, arg |-> arg, state |-> "signing"])

\* useWriteContract / useWaitForTransactionReceipt follow the latest request only
Tracked == Len(writes)
writeData ==
  IF writes # <<>> /\ writes[Tracked].state \in {"submitted", "confirmed", "reverted"}
    THEN Tracked ELSE 0
isWritePending == writes # <<>> /\ writes[Tracked].state = "signing"
isTransactionLoading == writes # <<>> /\ writes[Tracked].state = "submitted"

\* a ciphertext handle of the contract: the balance of account a in its v-th version
HandleOf(a, v) == [acct |-> a, ver |-> v]
\* undefined (no data) or 0n (a balance never written)
NoHandle == [acct |-> Undefined, ver |-> 0]

\* the balance read as it would be without the account in its query key
encryptedBalanceUnkeyed ==
  IF isContractAvailable /\ walletAddress # Undefined
       /\ \E a \in AllAccounts : balanceCache[a] # 0
    THEN LET a == CHOOSE a \in AllAccounts : balanceCache[a] # 0
         IN HandleOf(a, balanceCache[a])
    ELSE NoHandle

\* data of useReadContract({ functionName: "getBalance", args: [walletAddress],
\* query: { enabled: Boolean(walletAddress && contractAddress) } })
encryptedBalance ==
  IF isContractAvailable /\ walletAddress # Undefined /\ balanceCache[walletAddress] # 0
    THEN HandleOf(walletAddress, balanceCache[walletAddress])
    ELSE NoHandle

\* if (!contractAddress || !encryptedBalance || encryptedBalance === 0n) return [];
decryptRequests ==
  IF ~isContractAvailable \/ encryptedBalance = NoHandle THEN {} ELSE {encryptedBalance}

NoResult == [handle |-> NoHandle, signer |-> Undefined, chain |-> NoChain]

\* decryptBalance(): decryptResults[encryptedBalance.toString()], or null
decryptBalance ==
  IF encryptedBalance = NoHandle THEN NoResult
  ELSE IF \E e \in decryptResults : e.handle = encryptedBalance
    THEN CHOOSE e \in decryptResults : e.handle = encryptedBalance
    ELSE NoResult

\* the isLoading the hook returns
Busy == isLoading \/ isWritePending \/ isTransactionLoading

\* the write a hook call issued (0: none)
WriteOf(c) ==
  IF \E i \in DOMAIN writes : writes[i].call = c
    THEN CHOOSE i \in DOMAIN writes : writes[i].call = c ELSE 0

StartStateOf(g) == IF WriteOf(g.call) = 0 THEN "none" ELSE writes[WriteOf(g.call)].state

\* gameHistory.find(game => game.id === gameId): the index of the first match, 0: none
FindGame(gameId) ==
  IF \E i \in DOMAIN gameHistory : gameHistory[i].id = gameId
    THEN CHOOSE i \in DOMAIN gameHistory :
            /\ gameHistory[i].id = gameId
            /\ \A j \in 1..(i - 1) : gameHistory[j].id # gameId
    ELSE 0

\* getGameDetails(gameId): null without a contract address, else
\* gameHistory.find(game => game.id === gameId) || null (0: null)
getGameDetails(gameId) == IF ~isContractAvailable THEN 0 ELSE FindGame(gameId)

\* One invocation of a hook operation.  address, wallet and ctr are the
\* contractAddress, walletAddress and gameCounter of the callback's closure;
\* encryptedPrediction is the local of that name.  target, life and atCall record what
\* resolveGame was called on: the startGame call that created the session with
\* that id, the session's lifecycle and the state of its start transaction.
NoCall == [op |-> "none", diceCount |-> 0, prediction |-> "even", stake |-> 0,
           gameId |-> 0, pc |-> "done", ctr |-> 0, result |-> "none", roll |-> 0,
           target |-> 0, life |-> "none", atCall |-> "none",
           address |-> Undefined, wallet |-> Undefined, amount |-> 0, swap |-> 0,
           encryptedPrediction |-> NoEnc]

ResolveCall(gameId, res) ==
  LET i == FindGame(gameId)
  IN [NoCall EXCEPT !.op = "resolveGame", !.gameId = gameId, !.result = res,
        !.address = IF res = "submitted" THEN contractAddress ELSE Undefined,
        !.wallet = IF res = "submitted" THEN walletAddress ELSE Undefined,
        !.target = IF i = 0 THEN 0 ELSE gameHistory[i].call,
        !.life = IF i = 0 THEN "none" ELSE Lifecycle(gameHistory[i]),
        !.atCall = IF i = 0 THEN "none" ELSE StartStateOf(gameHistory[i])]

\* ---------------------------------------------------------------- initial

\* the page mounts with no wallet connected: every useState at its initial value,
\* no query enabled, nothing submitted
Init ==
  /\ chainId = NoChain
  /\ walletAddress = Undefined
  /\ isLoading = FALSE
  /\ error = Null
  /\ gameHistory = <<>>
  /\ gameCounter = 0
  /\ chainCounter = 0
  /\ writes = <<>>
  /\ refreshTimers = 0
  /\ calls = <<>>
  /\ rolls = <<>>
  /\ isRolling = FALSE
  /\ rollBalance = InitialRollBalance * 100
  /\ demoHistory = <<>>
  /\ readPending = FALSE
  /\ ethBalance = InitialEthBalance * 1000
  /\ swaps = <<>>
  /\ isSwapping = FALSE
  /\ chainBalance = [a \in AllAccounts |-> 0]
  /\ balanceCache = [a \in AllAccounts |-> 0]
  /\ decryptResults = {}
  /\ decrypting = <<>>
  /\ currentPage = "Home"
  /\ walletConnected = FALSE
  /\ navigations = {}

\* ------------------------------------------------- the hook's operations

\* operations invoked so far: every roll, every swap, and every hook call that
\* neither made
Ops == Len(rolls) + Len(swaps)
         + Cardinality({c \in DOMAIN calls : calls[c].roll = 0 /\ calls[c].swap = 0})

\* the call returns: its locals are gone, and a call that wrote nothing leaves
\* only its outcome behind
Finish(c, res) ==
  IF res = "submitted"
    THEN [calls EXCEPT ![c].pc = "done", ![c].result = res,
                       ![c].encryptedPrediction = NoEnc]
    ELSE [calls EXCEPT ![c] = [NoCall EXCEPT !.op = calls[c].op, !.roll = calls[c].roll,
                                             !.result = res]]

\* startGame up to its first await: the guard, setIsLoading(true), setError(null).
\* encAvail: whether useFHEEncryption handed the hook an encryptWith; r: the roll
\* whose handler made the call (0: a direct caller of the hook).
StartGameInvoke(d, p, s, encAvail, r) ==
  /\ Ops < MaxOps
  /\ IF ~isContractAvailable \/ walletAddress = Undefined \/ ~encAvail
       THEN /\ error' = "Contract, wallet, or encryption not available"
            /\ isLoading' = isLoading
            /\ calls' = Append(calls, [NoCall EXCEPT !.op = "startGame", !.roll = r,
                                 !.result = "unavailable"])
       ELSE /\ error' = Null
            /\ isLoading' = TRUE
            /\ calls' = Append(calls, [NoCall EXCEPT !.op = "startGame", !.diceCount = d,
                                 !.prediction = p, !.stake = s, !.roll = r,
                                 !.pc = "encPred", !.ctr = gameCounter,
                                 !.address = contractAddress, !.wallet = walletAddress])
  /\ UNCHANGED <<gameHistory, writes>>

\* a caller of the hook other than the Roll button
StartGame(d, p, s, encAvail) ==
  /\ StartGameInvoke(d, p, s, encAvail, 0)
  /\ UNCHANGED <<uiVars, envVars, ledgerVars>>

\* the catch and finally blocks of startGame
StartGameCatch(c, res, msg) ==
  /\ error' = msg
  /\ isLoading' = FALSE
  /\ calls' = Finish(c, res)
  /\ UNCHANGED <<gameHistory, writes>>

\* the prediction step as it would be if the session were recorded before the
\* stake is encrypted
EncryptPredictionOptimistic(c, out) ==
  /\ calls[c].op = "startGame" /\ calls[c].pc = "encPred"
  /\ IF out = "ok"
       THEN /\ calls' = [calls EXCEPT ![c].pc = "encStake",
                                    ![c].encryptedPrediction =
                                      EncryptWith(c, "add8",
                                                  PredictionValue(calls[c].prediction))]
            /\ gameHistory' = AddToHistory(NewGame(c, calls[c].diceCount,
                                 calls[c].prediction, calls[c].stake, calls[c].ctr),
                                 gameHistory)
            /\ UNCHANGED <<isLoading, error, writes>>
       ELSE IF out = "undefined"
         THEN StartGameCatch(c, "encPredFailed", "Failed to encrypt prediction")
         ELSE StartGameCatch(c, "threw", "Failed to start game")
  /\ UNCHANGED <<uiVars, envVars, ledgerVars>>

\* const encryptedPrediction = await encryptWith(...); if (!encryptedPrediction) {...}
EncryptPrediction(c, out) ==
  /\ calls[c].op = "startGame" /\ calls[c].pc = "encPred"
  /\ IF out = "ok"
       THEN /\ calls' = [calls EXCEPT ![c].pc = "encStake",
                                    ![c].encryptedPrediction =
                                      EncryptWith(c, "add8",
                                                  PredictionValue(calls[c].prediction))]
            /\ UNCHANGED <<isLoading, error, gameHistory, writes>>
       ELSE IF out = "undefined"
         THEN StartGameCatch(c, "encPredFailed", "Failed to encrypt prediction")
         ELSE StartGameCatch(c, "threw", "Failed to start game")
  /\ UNCHANGED <<uiVars, envVars, ledgerVars>>

\* const encryptedStake = await encryptWith(...); if (!encryptedStake) {...};
\* then writeContract, setGameHistory(prev => [newGame, ...prev]) and the finally block
EncryptStake(c, out) ==
  /\ calls[c].op = "startGame" /\ calls[c].pc = "encStake"
  /\ IF out = "ok"
       THEN /\ writes' = WriteContract(writes, "startGame", c,
                           StartGameArgs(calls[c].diceCount, calls[c].encryptedPrediction,
                             EncryptWith(c, "add256", ParseEther(calls[c].stake))))
            /\ gameHistory' = AddToHistory(NewGame(c, calls[c].diceCount,
                                 calls[c].prediction, calls[c].stake, calls[c].ctr),
                                 gameHistory)
            /\ isLoading' = FALSE
            /\ calls' = Finish(c, "submitted")
            /\ UNCHANGED error
       ELSE IF out = "undefined"
         THEN StartGameCatch(c, "encStakeFailed", "Failed to encrypt stake")
         ELSE StartGameCatch(c, "threw", "Failed to start game")
  /\ UNCHANGED <<uiVars, envVars, ledgerVars>>

\* resolveGame(gameId): no await, so the whole body is one step
ResolveGame(gameId) ==
  /\ Ops < MaxOps
  /\ IF ~isContractAvailable \/ walletAddress = Undefined
       THEN /\ error' = "Contract not found or wallet not connected"
            /\ calls' = Append(calls, ResolveCall(gameId, "unavailable"))
            /\ UNCHANGED <<isLoading, writes>>
       ELSE /\ error' = Null
            /\ writes' = WriteContract(writes, "resolveGame", Len(calls) + 1, <<gameId>>)
            /\ isLoading' = FALSE
            /\ calls' = Append(calls, ResolveCall(gameId, "submitted"))
  /\ UNCHANGED <<gameHistory, uiVars, envVars, ledgerVars>>

\* swapETHForROLL(ethAmount): no await, so the whole body is one step; sw is the
\* click on Swap whose handler made the call (0: a direct caller of the hook)
SwapETHForROLLInvoke(ethAmount, sw) ==
  /\ Ops < MaxOps
  /\ IF ~isContractAvailable \/ walletAddress = Undefined
       THEN /\ error' = "Contract not found or wallet not connected"
            /\ calls' = Append(calls, [NoCall EXCEPT !.op = "swapETHForROLL",
                                 !.amount = ethAmount, !.swap = sw,
                                 !.result = "unavailable"])
            /\ UNCHANGED <<isLoading, writes>>
       ELSE /\ error' = Null
            /\ writes' = WriteContract(writes, "swapETHForROLL", Len(calls) + 1,
                                       <<ParseEther(ethAmount)>>)
            /\ isLoading' = FALSE
            /\ calls' = Append(calls, [NoCall EXCEPT !.op = "swapETHForROLL",
                                 !.amount = ethAmount, !.swap = sw,
                                 !.result = "submitted", !.address = contractAddress,
                                 !.wallet = walletAddress])
  /\ UNCHANGED gameHistory

\* a caller of the hook other than the Swap button
SwapETHForROLL(ethAmount) ==
  /\ SwapETHForROLLInvoke(ethAmount, 0)
  /\ UNCHANGED <<uiVars, envVars, ledgerVars>>

\* mintTokens as it would be without its guard
MintTokensUnguarded(amount) ==
  /\ Ops < MaxOps
  /\ error' = Null
  /\ writes' = WriteContract(writes, "mintTokens", Len(calls) + 1, <<ParseEther(amount)>>)
  /\ isLoading' = FALSE
  /\ calls' = Append(calls, [NoCall EXCEPT !.op = "mintTokens", !.amount = amount,
                       !.result = "submitted", !.address = contractAddress,
                       !.wallet = walletAddress])
  /\ UNCHANGED <<gameHistory, uiVars, envVars, ledgerVars>>

\* mintTokens(amount): no await, so the whole body is one step
MintTokens(amount) ==
  /\ Ops < MaxOps
  /\ IF ~isContractAvailable \/ walletAddress = Undefined
       THEN /\ error' = "Contract not found or wallet not connected"
            /\ calls' = Append(calls, [NoCall EXCEPT !.op = "mintTokens",
                                 !.amount = amount, !.result = "unavailable"])
            /\ UNCHANGED <<isLoading, writes>>
       ELSE /\ error' = Null
            /\ writes' = WriteContract(writes, "mintTokens", Len(calls) + 1,
                                       <<ParseEther(amount)>>)
            /\ isLoading' = FALSE
            /\ calls' = Append(calls, [NoCall EXCEPT !.op = "mintTokens",
                                 !.amount = amount, !.result = "submitted",
                                 !.address = contractAddress, !.wallet = walletAddress])
  /\ UNCHANGED <<gameHistory, uiVars, envVars, ledgerVars>>

\* ------------------------------------------------- the wallet and the ledger

SetState(i, st) == [writes EXCEPT ![i].state = st]

\* the wallet signs and broadcasts the request
SignTx(i) ==
  /\ writes[i].state = "signing"
  /\ writes' = SetState(i, "submitted")
  /\ UNCHANGED <<isLoading, error, gameHistory, calls, uiVars, envVars, ledgerVars>>

\* the wallet declines: the request never reaches the ledger
RejectTx(i) ==
  /\ writes[i].state = "signing"
  /\ writes' = SetState(i, "rejected")
  /\ UNCHANGED <<isLoading, error, gameHistory, calls, uiVars, envVars, ledgerVars>>

\* useEffect(() => { if (writeData && !isTransactionLoading) setTimeout(refresh, 2000) })
\* runs when the receipt of the tracked hash arrives
TimersAfterReceipt(i) == IF i = Tracked THEN refreshTimers + 1 ELSE refreshTimers

\* the id the contract gives the game its next startGame creates: the value of
\* its gameCounter, which the hook reads for the id of a new session
NextGameId == chainCounter

\* the contract's gameCounter after a confirmed call
CounterAfter(fn) == IF fn = "startGame" THEN chainCounter + 1 ELSE chainCounter

\* the contract's balance handles after a confirmed call of account a: a swap
\* and a mint credit ROLL, which gives the balance a new ciphertext
BalanceAfter(fn, a) ==
  IF fn \in {"swapETHForROLL", "mintTokens"}
    THEN [chainBalance EXCEPT ![a] = @ + 1] ELSE chainBalance

\* refetchBalance() / the fetch of the balance query: the handle of the connected
\* account as the contract holds it now
FetchBalance ==
  IF isContractAvailable /\ walletAddress # Undefined
    THEN [balanceCache EXCEPT ![walletAddress] = chainBalance[walletAddress]]
    ELSE balanceCache

ConfirmTx(i) ==
  /\ writes[i].state = "submitted"
  /\ writes' = SetState(i, "confirmed")
  /\ chainCounter' = CounterAfter(writes[i].fn)
  /\ chainBalance' = BalanceAfter(writes[i].fn, calls[writes[i].call].wallet)
  /\ refreshTimers' = TimersAfterReceipt(i)
  /\ UNCHANGED <<isLoading, error, gameHistory, calls, gameCounter, readPending,
                 balanceCache, decryptResults, decrypting, uiVars, envVars>>

RevertTx(i) ==
  /\ writes[i].state = "submitted"
  /\ writes' = SetState(i, "reverted")
  /\ refreshTimers' = TimersAfterReceipt(i)
  /\ UNCHANGED <<isLoading, error, gameHistory, calls, chainCounter, gameCounter,
                 readPending, cacheVars, uiVars, envVars>>

\* refresh(): await Promise.all([refetchBalance(), refetchGameCounter()])
Refresh ==
  /\ refreshTimers > 0
  /\ refreshTimers' = refreshTimers - 1
  /\ gameCounter' = IF isContractAvailable THEN chainCounter ELSE gameCounter
  /\ balanceCache' = FetchBalance
  /\ UNCHANGED <<isLoading, error, gameHistory, calls, writes, chainCounter,
                 readPending, chainBalance, decryptResults, decrypting, uiVars,
                 envVars>>

\* the first fetch of the read queries (gameCounter, getBalance) for a new key answers
ReadGameCounter ==
  /\ readPending
  /\ readPending' = FALSE
  /\ gameCounter' = IF isContractAvailable THEN chainCounter ELSE gameCounter
  /\ balanceCache' = FetchBalance
  /\ UNCHANGED <<isLoading, error, gameHistory, calls, writes, chainCounter,
                 refreshTimers, chainBalance, decryptResults, decrypting, uiVars,
                 envVars>>

\* ---------------------------------------------------- wallet and network

\* the account or the chain became (a, ch): the queries are keyed by the contract
\* address, so a new address starts with no data
AccountChanged(a, ch) ==
  /\ walletAddress' = a
  /\ chainId' = ch
  /\ IF getEncryptedDiceGameAddress(ch) = contractAddress
       THEN UNCHANGED <<gameCounter, readPending>>
       ELSE /\ gameCounter' = 0
            /\ readPending' = (getEncryptedDiceGameAddress(ch) # Undefined)
  /\ UNCHANGED <<isLoading, error, gameHistory, calls, writes, chainCounter,
                 refreshTimers, cacheVars, uiVars>>

Connect(a, ch) == walletAddress = Undefined /\ AccountChanged(a, ch)

Disconnect == walletAddress # Undefined /\ AccountChanged(Undefined, NoChain)

SwitchChain(ch) == walletAddress # Undefined /\ ch # chainId /\ AccountChanged(walletAddress, ch)

\* the wallet changes to another of its accounts on the same chain: the balance
\* query has the account in its key and fetches for the new one
SwitchAccount(a) ==
  /\ walletAddress # Undefined /\ a # walletAddress
  /\ walletAddress' = a
  /\ readPending' = (readPending \/ isContractAvailable)
  /\ UNCHANGED <<chainId, isLoading, error, gameHistory, calls, writes, chainCounter,
                 gameCounter, refreshTimers, cacheVars, uiVars>>

\* ------------------------------------------------------------- decryption

\* useFHEDecrypt's decrypt(): takes the current requests, signer and chain
DecryptStart ==
  /\ decrypting = <<>>
  /\ decryptRequests # {}
  /\ walletAddress # Undefined
  /\ decrypting' = <<[handle |-> encryptedBalance, signer |-> walletAddress,
                      chain |-> chainId]>>
  /\ UNCHANGED <<isLoading, error, gameHistory, calls, writes, chainCounter,
                 gameCounter, readPending, refreshTimers, chainBalance, balanceCache,
                 decryptResults, uiVars, envVars>>

\* the decryption answers: its value is kept under its handle
DecryptDone ==
  /\ decrypting # <<>>
  /\ decryptResults' = decryptResults \cup {decrypting[1]}
  /\ decrypting' = <<>>
  /\ UNCHANGED <<isLoading, error, gameHistory, calls, writes, chainCounter,
                 gameCounter, readPending, refreshTimers, chainBalance, balanceCache,
                 uiVars, envVars>>

\* --------------------------------------------- the Roll button and the page

NoRoll == [stake |-> 0, diceMode |-> 1, prediction |-> "even", avail |-> FALSE,
           pc |-> "done", call |-> 0, notice |-> "none", toast |-> "none"]

RECURSIVE Sum(_)
\* results.reduce((a, b) => a + b, 0)
Sum(q) == IF q = <<>> THEN 0 ELSE Head(q) + Sum(Tail(q))

\* win as it would be if an even sum won whatever the prediction
WinOnEvenSum(p, dice) == Sum(dice) % 2 = 0

\* const win = (prediction === "even" && isEven) || (prediction === "odd" && !isEven)
Win(p, dice) ==
  LET isEven == Sum(dice) % 2 = 0
  IN (p = "even" /\ isEven) \/ (p = "odd" /\ ~isEven)

\* const payout = win ? stake * 1.95 : 0, in hundredths of a ROLL
Payout(win, stake) == IF win THEN stake * PayoutPct ELSE 0

\* the page's handleRoll as it would be if a win kept the bet
BalanceAfterRollKeepingBet(prev, bet, win, payout) ==
  IF win THEN prev + payout ELSE prev - bet * 100

\* the page's handleRoll(bet, result): the new balance
BalanceAfterRoll(prev, bet, win, payout) ==
  IF win THEN prev - bet * 100 + payout ELSE prev - bet * 100

\* the page's handleRoll(bet, result): the record it appends (roll stands for id)
DemoRecord(r, bet, dice, win, payout) ==
  [roll |-> r, diceMode |-> Len(dice), diceValues |-> dice, bet |-> bet,
   result |-> IF win THEN "win" ELSE "loss", payout |-> payout]

\* startGame as it would be if its catch block rethrew
StartGameRethrows(res) == res # "submitted"

\* whether the awaited startGame rejected, which is what sends handleRoll into its
\* catch block: startGame catches whatever its body throws and never rethrows
StartGameRejects(res) == FALSE

\* handleRollFallback up to its await: if (stake > rollBalance) { toast.error; return }
FallbackStart(rec) ==
  IF rec.stake * 100 > rollBalance
    THEN [rec EXCEPT !.toast = "insufficient", !.pc = "done"]
    ELSE [rec EXCEPT !.pc = "demoWait"]

\* handleRoll up to its first await
HandleRoll(s, m, p, encAvail) ==
  /\ ~isRolling
  /\ Ops < MaxOps
  /\ LET r == Len(rolls) + 1
         rec == [NoRoll EXCEPT !.stake = s, !.diceMode = m, !.prediction = p,
                               !.avail = isContractAvailable]
     IN IF s <= 0
          THEN /\ rolls' = Append(rolls, [rec EXCEPT !.notice = "invalid"])
               /\ UNCHANGED <<isRolling, isLoading, error, calls, gameHistory, writes>>
          ELSE IF ~isContractAvailable
            THEN LET f == FallbackStart([rec EXCEPT !.notice = "demoMode"])
                 IN /\ rolls' = Append(rolls, f)
                    /\ isRolling' = (f.pc = "demoWait")
                    /\ UNCHANGED <<isLoading, error, calls, gameHistory, writes>>
            ELSE /\ StartGameInvoke(m, p, s, encAvail, r)
                 /\ rolls' = Append(rolls, [rec EXCEPT !.pc = "awaitStart",
                                                       !.call = Len(calls) + 1])
                 /\ isRolling' = TRUE
  /\ UNCHANGED <<rollBalance, demoHistory, swapVars, pageVars, envVars, ledgerVars>>

\* handleRoll once the awaited startGame has settled
HandleRollAfterStart(r) ==
  /\ rolls[r].pc = "awaitStart"
  /\ calls[rolls[r].call].pc = "done"
  /\ IF StartGameRejects(calls[rolls[r].call].result)
       THEN LET f == FallbackStart([rolls[r] EXCEPT !.notice = "failedToStart"])
            IN /\ rolls' = [rolls EXCEPT ![r] = f]
               /\ isRolling' = (f.pc = "demoWait")
       ELSE /\ rolls' = [rolls EXCEPT ![r].pc = "visualWait"]
            /\ UNCHANGED isRolling
  /\ UNCHANGED <<isLoading, error, calls, gameHistory, writes, rollBalance,
                 demoHistory, swapVars, pageVars, envVars, ledgerVars>>

\* handleRoll after its one-second wait: toast.success("Game started! ..."), finally
HandleRollFinish(r) ==
  /\ rolls[r].pc = "visualWait"
  /\ rolls' = [rolls EXCEPT ![r].pc = "done", ![r].toast = "started"]
  /\ isRolling' = FALSE
  /\ UNCHANGED <<isLoading, error, calls, gameHistory, writes, rollBalance,
                 demoHistory, swapVars, pageVars, envVars, ledgerVars>>

\* handleRollFallback after its one-second wait, with the page's handleRoll as onRoll
HandleRollFallback(r, dice) ==
  /\ rolls[r].pc = "demoWait"
  /\ dice \in [1..rolls[r].diceMode -> DieFaces]
  /\ LET win == Win(rolls[r].prediction, dice)
         payout == Payout(win, rolls[r].stake)
     IN /\ rollBalance' = BalanceAfterRoll(rollBalance, rolls[r].stake, win, payout)
        /\ demoHistory' = Append(demoHistory,
                                 DemoRecord(r, rolls[r].stake, dice, win, payout))
        /\ rolls' = [rolls EXCEPT ![r].pc = "done",
                                  ![r].toast = IF win THEN "won" ELSE "lost"]
  /\ isRolling' = FALSE
  /\ UNCHANGED <<isLoading, error, calls, gameHistory, writes, swapVars, pageVars, envVars,
                 ledgerVars>>

\* ------------------------------------------------ the Swap button and the page

NoSwap == [fromToken |-> "ETH", amount |-> 0, avail |-> FALSE, pc |-> "done",
           call |-> 0, toast |-> "none", description |-> "none"]

\* the page's handleSwap(fromToken, amount): the new ETH balance, in thousandths
EthAfterSwap(prev, fromToken, amount) ==
  IF fromToken = "ETH" THEN prev - amount * 1000
                       ELSE prev + (amount * 1000) \div ExchangeRate

\* the page's handleSwap(fromToken, amount): the new ROLL balance, in hundredths
RollAfterSwap(prev, fromToken, amount) ==
  IF fromToken = "ETH" THEN prev + amount * ExchangeRate * 100
                       ELSE prev - amount * 100

\* const fromBalance = fromToken === "ETH" ? ethBalance : rollBalance; amount > fromBalance
ExceedsFromBalance(fromToken, amount) ==
  IF fromToken = "ETH" THEN amount * 1000 > ethBalance ELSE amount * 100 > rollBalance

\* handleSwap up to its first timer: the two checks, then either the awaited
\* swapETHForROLL, which returns without waiting for anything, with the success
\* toast and the finally block, or the start of the demo swap's 1.5 s wait
HandleSwap(fromToken, amount) ==
  /\ ~isSwapping
  /\ Ops < MaxOps
  /\ LET sw == Len(swaps) + 1
         rec == [NoSwap EXCEPT !.fromToken = fromToken, !.amount = amount,
                               !.avail = isContractAvailable]
     IN IF amount <= 0
          THEN /\ swaps' = Append(swaps, [rec EXCEPT !.toast = "invalid"])
               /\ UNCHANGED <<isSwapping, isLoading, error, calls, gameHistory, writes>>
          ELSE IF ExceedsFromBalance(fromToken, amount)
            THEN /\ swaps' = Append(swaps, [rec EXCEPT !.toast = "insufficient"])
                 /\ UNCHANGED <<isSwapping, isLoading, error, calls, gameHistory, writes>>
            ELSE IF isContractAvailable /\ fromToken = "ETH"
              THEN /\ SwapETHForROLLInvoke(amount, sw)
                   /\ swaps' = Append(swaps, [rec EXCEPT !.toast = "swapped",
                                   !.description = "Transaction submitted to blockchain",
                                   !.call = Len(calls) + 1])
                   /\ UNCHANGED isSwapping
              ELSE /\ swaps' = Append(swaps, [rec EXCEPT !.pc = "demoWait"])
                   /\ isSwapping' = TRUE
                   /\ UNCHANGED <<isLoading, error, calls, gameHistory, writes>>
  /\ UNCHANGED <<rolls, isRolling, rollBalance, demoHistory, ethBalance, pageVars, envVars,
                 ledgerVars>>

\* handleSwap after the demo swap's wait: onSwap(fromToken, amount), the success
\* toast, the finally block
HandleSwapDemo(sw) ==
  /\ swaps[sw].pc = "demoWait"
  /\ ethBalance' = EthAfterSwap(ethBalance, swaps[sw].fromToken, swaps[sw].amount)
  /\ rollBalance' = RollAfterSwap(rollBalance, swaps[sw].fromToken, swaps[sw].amount)
  /\ swaps' = [swaps EXCEPT ![sw].pc = "done", ![sw].toast = "swapped",
                            ![sw].description = "Demo transaction completed"]
  /\ isSwapping' = FALSE
  /\ UNCHANGED <<isLoading, error, calls, gameHistory, writes, rolls, isRolling,
                 demoHistory, pageVars, envVars, ledgerVars>>

\* ------------------------------------------------------ the History page

\* records.filter(r => r.result === res).length
CountResult(records, res) ==
  Cardinality({i \in DOMAIN records : records[i].result = res})

RECURSIVE TotalWagered(_)
\* records.reduce((sum, r) => sum + r.bet, 0)
TotalWagered(records) ==
  IF records = <<>> THEN 0 ELSE Head(records).bet + TotalWagered(Tail(records))

RECURSIVE NetProfitGross(_)
\* netProfit as it would be if it summed the payouts alone
NetProfitGross(records) ==
  IF records = <<>> THEN 0 ELSE Head(records).payout + NetProfitGross(Tail(records))

RECURSIVE NetProfit(_)
\* records.reduce((sum, r) => sum + (r.payout - r.bet), 0), in hundredths of a ROLL
NetProfit(records) ==
  IF records = <<>> THEN 0
  ELSE (Head(records).payout - Head(records).bet * 100) + NetProfit(Tail(records))

\* const stats = { totalGames, wins, losses, totalWagered, netProfit }
Stats(records) ==
  [totalGames |-> Len(records),
   wins |-> CountResult(records, "win"),
   losses |-> CountResult(records, "loss"),
   totalWagered |-> TotalWagered(records),
   netProfit |-> NetProfit(records)]

\* useEffect(() => { if (contractError) clearError() }, [contractError, clearError])
ClearErrorEffect ==
  /\ error # Null
  /\ error' = Null
  /\ UNCHANGED <<isLoading, calls, gameHistory, writes, uiVars, envVars, ledgerVars>>

\* ------------------------------------------------- the Home page's shell

\* the pages of the navigation bar
Pages == {"Home", "Game", "History", "Docs"}

\* useAccount().isConnected
isConnected == walletAddress # Undefined

\* useEffect(() => { setWalletConnected(isConnected); ... }, [isConnected, address])
WalletStateEffect ==
  /\ walletConnected # isConnected
  /\ walletConnected' = isConnected
  /\ UNCHANGED <<currentPage, navigations, isLoading, error, gameHistory, calls, writes,
                 rolls, isRolling, rollBalance, demoHistory, swapVars, envVars,
                 ledgerVars>>

\* handleWalletDisconnect, the Disconnect entry of the header's wallet menu, which
\* the header shows while walletConnected: setCurrentPage("Home")
HandleWalletDisconnect ==
  /\ walletConnected
  /\ currentPage' = "Home"
  /\ UNCHANGED <<walletConnected, navigations, isLoading, error, gameHistory, calls,
                 writes, rolls, isRolling, rollBalance, demoHistory, swapVars, envVars,
                 ledgerVars>>

\* handleNavigate(page) up to its await: the two early returns, then the delay
HandleNavigate(page) ==
  /\ page # currentPage
  /\ ~(page = "Game" /\ ~walletConnected)
  /\ navigations' = navigations \cup {page}
  /\ UNCHANGED <<currentPage, walletConnected, isLoading, error, gameHistory, calls,
                 writes, rolls, isRolling, rollBalance, demoHistory, swapVars, envVars,
                 ledgerVars>>

\* handleNavigate(page) after its delay: setCurrentPage(page)
HandleNavigateDone(page) ==
  /\ page \in navigations
  /\ currentPage' = page
  /\ navigations' = navigations \ {page}
  /\ UNCHANGED <<walletConnected, isLoading, error, gameHistory, calls, writes, rolls,
                 isRolling, rollBalance, demoHistory, swapVars, envVars, ledgerVars>>

\* ------------------------------------------------------------ specification

Next ==
  \/ \E in \in StartInputs, e \in BOOLEAN : StartGame(in[1], in[2], in[3], e)
  \/ \E c \in DOMAIN calls, out \in EncryptOutcomes : EncryptPrediction(c, out)
  \/ \E c \in DOMAIN calls, out \in EncryptOutcomes : EncryptStake(c, out)
  \/ \E g \in GameIds : ResolveGame(g)
  \/ \E i \in DOMAIN writes : SignTx(i)
  \/ \E i \in DOMAIN writes : RejectTx(i)
  \/ \E i \in DOMAIN writes : ConfirmTx(i)
  \/ \E i \in DOMAIN writes : RevertTx(i)
  \/ Refresh
  \/ ReadGameCounter
  \/ \E a \in Accounts, ch \in ChainIds : Connect(a, ch)
  \/ Disconnect
  \/ \E ch \in ChainIds : SwitchChain(ch)
  \/ \E in \in RollInputs, e \in BOOLEAN : HandleRoll(in[1], in[2], in[3], e)
  \/ \E r \in DOMAIN rolls : HandleRollAfterStart(r)
  \/ \E r \in DOMAIN rolls : HandleRollFinish(r)
  \/ \E r \in DOMAIN rolls, dice \in UNION {[1..n -> Faces] : n \in DiceModes} :
        HandleRollFallback(r, dice)
  \/ ClearErrorEffect
  \/ \E amt \in SwapInputs : SwapETHForROLL(amt)
  \/ \E in \in SwapFormInputs : HandleSwap(in[1], in[2])
  \/ \E sw \in DOMAIN swaps : HandleSwapDemo(sw)
  \/ \E a \in AllAccounts : SwitchAccount(a)
  \/ DecryptStart
  \/ DecryptDone
  \/ \E amt \in MintInputs : MintTokens(amt)

Spec == Init /\ [][Next]_vars

\* the hook driven through its returned API alone (startGame, resolveGame),
\* with the wallet, the chain and the wagmi queries around it
NextHook ==
  \/ \E in \in StartInputs, e \in BOOLEAN : StartGame(in[1], in[2], in[3], e)
  \/ \E c \in DOMAIN calls, out \in EncryptOutcomes : EncryptPrediction(c, out)
  \/ \E c \in DOMAIN calls, out \in EncryptOutcomes : EncryptStake(c, out)
  \/ \E g \in GameIds : ResolveGame(g)
  \/ \E i \in DOMAIN writes : SignTx(i)
  \/ \E i \in DOMAIN writes : RejectTx(i)
  \/ \E i \in DOMAIN writes : ConfirmTx(i)
  \/ \E i \in DOMAIN writes : RevertTx(i)
  \/ Refresh
  \/ ReadGameCounter
  \/ \E a \in Accounts, ch \in ChainIds : Connect(a, ch)
  \/ Disconnect
  \/ \E ch \in ChainIds : SwitchChain(ch)

SpecHook == Init /\ [][NextHook]_vars

\* the hook driven by the Roll button of GameInterface, which is its only
\* caller in the application
NextPage ==
  \/ \E c \in DOMAIN calls, out \in EncryptOutcomes : EncryptPrediction(c, out)
  \/ \E c \in DOMAIN calls, out \in EncryptOutcomes : EncryptStake(c, out)
  \/ \E i \in DOMAIN writes : SignTx(i)
  \/ \E i \in DOMAIN writes : RejectTx(i)
  \/ \E i \in DOMAIN writes : ConfirmTx(i)
  \/ \E i \in DOMAIN writes : RevertTx(i)
  \/ Refresh
  \/ ReadGameCounter
  \/ \E a \in Accounts, ch \in ChainIds : Connect(a, ch)
  \/ Disconnect
  \/ \E ch \in ChainIds : SwitchChain(ch)
  \/ \E in \in RollInputs, e \in BOOLEAN : HandleRoll(in[1], in[2], in[3], e)
  \/ \E r \in DOMAIN rolls : HandleRollAfterStart(r)
  \/ \E r \in DOMAIN rolls : HandleRollFinish(r)
  \/ \E r \in DOMAIN rolls, dice \in UNION {[1..n -> Faces] : n \in DiceModes} :
        HandleRollFallback(r, dice)
  \/ ClearErrorEffect

SpecPage == Init /\ [][NextPage]_vars

\* the swap and the balance: the hook's swapETHForROLL, the Swap button, the
\* balance query and its decryption, with the wallet and the ledger around them
NextSwap ==
  \/ \E amt \in SwapInputs : SwapETHForROLL(amt)
  \/ \E in \in SwapFormInputs : HandleSwap(in[1], in[2])
  \/ \E sw \in DOMAIN swaps : HandleSwapDemo(sw)
  \/ \E i \in DOMAIN writes : SignTx(i)
  \/ \E i \in DOMAIN writes : RejectTx(i)
  \/ \E i \in DOMAIN writes : ConfirmTx(i)
  \/ \E i \in DOMAIN writes : RevertTx(i)
  \/ Refresh
  \/ ReadGameCounter
  \/ \E a \in Accounts, ch \in ChainIds : Connect(a, ch)
  \/ Disconnect
  \/ \E ch \in ChainIds : SwitchChain(ch)
  \/ \E a \in AllAccounts : SwitchAccount(a)
  \/ DecryptStart
  \/ DecryptDone
  \/ ClearErrorEffect

SpecSwap == Init /\ [][NextSwap]_vars

\* the balance read path of the hook: the balance query, its decryption and
\* decryptBalance, with swaps changing the balance and the wallet changing
\* account and chain
NextBalance ==
  \/ \E amt \in SwapInputs : SwapETHForROLL(amt)
  \/ \E i \in DOMAIN writes : SignTx(i)
  \/ \E i \in DOMAIN writes : RejectTx(i)
  \/ \E i \in DOMAIN writes : ConfirmTx(i)
  \/ \E i \in DOMAIN writes : RevertTx(i)
  \/ Refresh
  \/ ReadGameCounter
  \/ \E a \in Accounts, ch \in ChainIds : Connect(a, ch)
  \/ Disconnect
  \/ \E ch \in ChainIds : SwitchChain(ch)
  \/ \E a \in AllAccounts : SwitchAccount(a)
  \/ DecryptStart
  \/ DecryptDone

SpecBalance == Init /\ [][NextBalance]_vars

\* the shell of the Home page: which page is shown, with the wallet connecting,
\* leaving and changing account or chain under it.  The shell shares no state
\* with the game component but the wallet, so it is run on its own.
NextNav ==
  \/ \E page \in Pages : HandleNavigate(page)
  \/ \E page \in Pages : HandleNavigateDone(page)
  \/ HandleWalletDisconnect
  \/ WalletStateEffect
  \/ \E a \in Accounts, ch \in ChainIds : Connect(a, ch)
  \/ Disconnect
  \/ \E ch \in ChainIds : SwitchChain(ch)
  \/ \E a \in AllAccounts : SwitchAccount(a)

SpecNav == Init /\ [][NextNav]_vars

\* the page in demo mode: no wallet is connected, so the Roll and the Swap button
\* both take their demo path, each with its own delay
NextDemo ==
  \/ \E in \in RollInputs : HandleRoll(in[1], in[2], in[3], FALSE)
  \/ \E r \in DOMAIN rolls, dice \in UNION {[1..n -> Faces] : n \in DiceModes} :
        HandleRollFallback(r, dice)
  \/ \E in \in SwapFormInputs : HandleSwap(in[1], in[2])
  \/ \E sw \in DOMAIN swaps : HandleSwapDemo(sw)

SpecDemo == Init /\ [][NextDemo]_vars

\* the four operations of the hook that send a transaction, each behind its
\* guard, with the wallet connecting, leaving and changing chain around them
NextOps ==
  \/ \E in \in StartInputs, e \in BOOLEAN : StartGame(in[1], in[2], in[3], e)
  \/ \E c \in DOMAIN calls, out \in EncryptOutcomes : EncryptPrediction(c, out)
  \/ \E c \in DOMAIN calls, out \in EncryptOutcomes : EncryptStake(c, out)
  \/ \E g \in GameIds : ResolveGame(g)
  \/ \E amt \in SwapInputs : SwapETHForROLL(amt)
  \/ \E amt \in MintInputs : MintTokens(amt)
  \/ \E i \in DOMAIN writes : SignTx(i)
  \/ \E i \in DOMAIN writes : RejectTx(i)
  \/ \E i \in DOMAIN writes : ConfirmTx(i)
  \/ \E i \in DOMAIN writes : RevertTx(i)
  \/ \E a \in Accounts, ch \in ChainIds : Connect(a, ch)
  \/ Disconnect
  \/ \E ch \in ChainIds : SwitchChain(ch)

SpecOps == Init /\ [][NextOps]_vars

\* the demo roll with its dice: no wallet is connected, so every click on Roll
\* goes through handleRollFallback, and each die shows any of its six faces
NextDice ==
  \/ \E in \in DiceRollInputs :
        Len(rolls) < MaxDiceRolls /\ HandleRoll(in[1], in[2], in[3], FALSE)
  \/ \E r \in DOMAIN rolls, dice \in UNION {[1..n -> DieFaces] : n \in DiceModes} :
        HandleRollFallback(r, dice)

SpecDice == Init /\ [][NextDice]_vars

\* ------------------------------------------------------------------ claims

\* nothing is in flight: every call has returned, every request has reached a
\* terminal state, every timer and effect has run
Settled ==
  /\ \A c \in DOMAIN calls : calls[c].pc = "done"
  /\ \A r \in DOMAIN rolls : rolls[r].pc = "done"
  /\ \A i \in DOMAIN writes : writes[i].state \in TerminalStates
  /\ refreshTimers = 0
  /\ ~readPending
  /\ error = Null

SessionOf(c) == {i \in DOMAIN gameHistory : gameHistory[i].call = c}

\* C1: once nothing is in flight any more, a session whose start transaction
\* confirmed is CONFIRMED (or further), and one whose start transaction reverted
\* or was rejected is FAILED: no session is left PENDING.
C1_StartedSessionAdvances ==
  Settled =>
    \A i \in DOMAIN gameHistory :
      /\ StartStateOf(gameHistory[i]) = "confirmed"
           => Lifecycle(gameHistory[i]) \in {"CONFIRMED", "RESOLVED"}
      /\ StartStateOf(gameHistory[i]) \in {"reverted", "rejected"}
           => Lifecycle(gameHistory[i]) = "FAILED"

\* C2: every session of the game history has an outcome exactly when its
\* lifecycle is RESOLVED.
C2_OutcomeIffResolved ==
  \A i \in DOMAIN gameHistory :
    gameHistory[i].outcome.present <=> (Lifecycle(gameHistory[i]) = "RESOLVED")

\* a session whose start transaction confirmed and for whose id a resolution
\* transaction confirmed too
C2_Witness ==
  /\ \E i \in DOMAIN gameHistory, w \in DOMAIN writes :
       /\ StartStateOf(gameHistory[i]) = "confirmed"
       /\ writes[w].fn = "resolveGame" /\ writes[w].arg = <<gameHistory[i].id>>
       /\ writes[w].state = "confirmed"

\* C3: resolveGame on a session that is still PENDING, or already RESOLVED,
\* submits no resolution transaction.
C3_ResolveGuarded ==
  \A c \in DOMAIN calls :
    (/\ calls[c].op = "resolveGame"
     /\ \/ calls[c].life = "RESOLVED"
        \/ calls[c].life = "PENDING" /\ calls[c].atCall \in {"signing", "submitted"})
    => WriteOf(c) = 0

\* C4: once nothing is in flight any more, a session whose start transaction had
\* confirmed when resolveGame was called on it, and whose resolution transaction
\* confirmed, is RESOLVED with its outcome attached.
C4_ResolvedAfterResolve ==
  Settled =>
    \A c \in DOMAIN calls :
      (/\ calls[c].op = "resolveGame"
       /\ calls[c].atCall = "confirmed"
       /\ WriteOf(c) # 0
       /\ writes[WriteOf(c)].state = "confirmed")
      => \A i \in SessionOf(calls[c].target) :
           gameHistory[i].isResolved /\ gameHistory[i].outcome.present

\* C5: a startGame call with stake <= 0 or diceCount outside {1,2,3} submits no
\* transaction and creates no session.
C5_InvalidStartRejected ==
  \A c \in DOMAIN calls :
    (/\ calls[c].op = "startGame"
     /\ calls[c].stake <= 0 \/ calls[c].diceCount \notin {1, 2, 3})
    => WriteOf(c) = 0 /\ SessionOf(c) = {}

\* C6: no two sessions of the game history share an id.
C6_UniqueIds ==
  \A i, j \in DOMAIN gameHistory : i # j => gameHistory[i].id # gameHistory[j].id

\* C7: once nothing is in flight any more, a session whose start transaction the
\* wallet rejected is not a PENDING entry of the history: it is FAILED (a removed
\* session is no entry at all).
C7_RejectedStartNotPending ==
  Settled =>
    \A i \in DOMAIN gameHistory :
      StartStateOf(gameHistory[i]) = "rejected" => Lifecycle(gameHistory[i]) = "FAILED"

\* C8: a startGame call that has not got both encryptions (encryption
\* unavailable, the prediction step failed, the stake step failed, or a step is
\* still awaited) has submitted no transaction and added no session.
C8_EncryptionFailureClean ==
  \A c \in DOMAIN calls :
    (calls[c].op = "startGame" /\ calls[c].result # "submitted")
    => WriteOf(c) = 0 /\ SessionOf(c) = {}

\* one call failed at the prediction step and another at the stake step
C8_Witness ==
  /\ \E c \in DOMAIN calls : calls[c].result = "encPredFailed"
  /\ \E c \in DOMAIN calls : calls[c].result = "encStakeFailed"

\* the demo path took effect for roll r: the page's handleRoll recorded its result
DemoEffect(r) == \E j \in DOMAIN demoHistory : demoHistory[j].roll = r

\* the contract path took effect for roll r: its startGame call submitted a
\* transaction or recorded a session
ContractEffect(r) ==
  rolls[r].call # 0 /\ (WriteOf(rolls[r].call) # 0 \/ SessionOf(rolls[r].call) # {})

C11_TerminalNotified ==
  [][\A i \in DOMAIN writes :
       (writes[i].state = "submitted" /\ writes'[i].state \in {"confirmed", "reverted"})
         => refreshTimers' = refreshTimers + 1]_vars

RECURSIVE RollsStake(_)
\* the stakes of a set of rolls, added up
RollsStake(S) ==
  IF S = {} THEN 0
  ELSE LET r == CHOOSE r \in S : TRUE IN rolls[r].stake + RollsStake(S \ {r})

C13_SwapDoneMeansBothUpdated ==
  [][\A sw \in DOMAIN swaps' :
       (/\ swaps'[sw].toast = "swapped"
        /\ (sw \notin DOMAIN swaps \/ swaps[sw].toast # "swapped"))
       => \/ /\ swaps'[sw].fromToken = "ETH"
             /\ ethBalance' = ethBalance - swaps'[sw].amount * 1000
             /\ rollBalance' = rollBalance + swaps'[sw].amount * ExchangeRate * 100
          \/ /\ swaps'[sw].fromToken = "ROLL"
             /\ rollBalance' = rollBalance - swaps'[sw].amount * 100
             /\ ethBalance' * ExchangeRate = ethBalance * ExchangeRate
                                              + swaps'[sw].amount * 1000
          \/ \E i \in DOMAIN writes' :
               /\ writes'[i].call = swaps'[sw].call
               /\ writes'[i].state = "confirmed"]_vars

\* C14: a swap with amount <= 0, or with more than the balance of its
\* direction, submits no transaction and is not carried out, whichever way the
\* swap was entered: through the Swap button or by calling swapETHForROLL.
C14_InvalidSwapRejected ==
  /\ \A c \in DOMAIN calls :
       (calls[c].op = "swapETHForROLL" /\ calls[c].amount <= 0) => WriteOf(c) = 0
  /\ \A sw \in DOMAIN swaps :
       swaps[sw].toast \in {"invalid", "insufficient"}
         => (swaps[sw].call = 0 /\ swaps[sw].pc = "done")
  /\ \A sw \in DOMAIN swaps :
       swaps[sw].amount <= 0 => swaps[sw].toast = "invalid"

\* nothing is in flight, the swaps and the decryption included
SettledAll ==
  /\ Settled
  /\ \A sw \in DOMAIN swaps : swaps[sw].pc = "done"
  /\ decrypting = <<>>

\* C15: once nothing is in flight any more, the balance the hook holds for the
\* connected account is the one the contract holds, whenever a swap of that
\* account was confirmed: the refresh after the confirmation has happened.
C15_RefreshAfterConfirmedSwap ==
  SettledAll =>
    \A i \in DOMAIN writes :
      (/\ writes[i].fn = "swapETHForROLL"
       /\ writes[i].state = "confirmed"
       /\ isContractAvailable
       /\ walletAddress = calls[writes[i].call].wallet)
      => balanceCache[walletAddress] = chainBalance[walletAddress]

C17_SentToCurrentChainAddress ==
  [][(Len(writes') > Len(writes) /\ walletAddress # Undefined)
       => /\ getEncryptedDiceGameAddress(chainId) # Undefined
          /\ calls'[writes'[Len(writes')].call].address
               = getEncryptedDiceGameAddress(chainId)]_vars

\* the encryption requests whose handles and proofs a startGame transaction carries
RequestsOf(w) == {w.arg[k].hex.req : k \in 2..5}

\* C18: the handles and proofs of every startGame transaction come from
\* encryption requests made during the call that submitted it, and no request
\* serves two transactions.
C18_FreshEncryption ==
  \A i \in DOMAIN writes :
    writes[i].fn = "startGame"
      => /\ \A q \in RequestsOf(writes[i]) : q[1] = writes[i].call
         /\ \A j \in DOMAIN writes :
              (j # i /\ writes[j].fn = "startGame")
                => RequestsOf(writes[i]) \cap RequestsOf(writes[j]) = {}

\* two startGame transactions have been submitted
C18_Witness ==
  \E i, j \in DOMAIN writes :
    i # j /\ writes[i].fn = "startGame" /\ writes[j].fn = "startGame"

\* C19: the arguments of every startGame transaction are, in this order, the
\* dice count, the prediction's handle and proof, the stake's handle and proof;
\* each handle comes with the proof of its own request; the prediction handle
\* encrypts 0 for even and 1 for odd as 8 bits, the stake handle the stake in
\* wei as 256 bits.
C19_ArgsInInputOrder ==
  \A i \in DOMAIN writes :
    writes[i].fn = "startGame"
      => LET c == calls[writes[i].call]
             a == writes[i].arg
         IN /\ Len(a) = 5
            /\ a[1] = c.diceCount
            /\ a[2].hex.req[2] = "add8"
            /\ a[3].hex.req = a[2].hex.req
            /\ a[4].hex.req[2] = "add256"
            /\ a[5].hex.req = a[4].hex.req
            /\ c.prediction = "even" => a[2].hex.plain = 0
            /\ c.prediction = "odd" => a[2].hex.plain = 1
            /\ a[4].hex.plain = [mantissa |-> c.stake, exp |-> 18]

\* a game predicting even and a game predicting odd have been submitted
C19_Witness ==
  /\ \E i \in DOMAIN writes :
       writes[i].fn = "startGame" /\ calls[writes[i].call].prediction = "even"
  /\ \E i \in DOMAIN writes :
       writes[i].fn = "startGame" /\ calls[writes[i].call].prediction = "odd"

\* C20: every session of the game history is still there after every step, with
\* the stake, the dice count and the prediction it was created with, whatever
\* the step is: another startGame, resolveGame, a refresh, a confirmation, an
\* error.
C20_SessionFieldsImmutable ==
  [][\A i \in DOMAIN gameHistory :
       \E j \in DOMAIN gameHistory' :
         /\ gameHistory'[j].call = gameHistory[i].call
         /\ gameHistory'[j].stake = gameHistory[i].stake
         /\ gameHistory'[j].diceCount = gameHistory[i].diceCount
         /\ gameHistory'[j].prediction = gameHistory[i].prediction]_vars

\* a second session was created with the id of an existing one and another stake
C20_Witness ==
  \E i, j \in DOMAIN gameHistory :
    /\ i < j
    /\ gameHistory[i].id = gameHistory[j].id
    /\ gameHistory[i].stake # gameHistory[j].stake

\* C21: the step in which a hook operation fails leaves its error in the
\* snapshot (one notification, the banner), and the step in which the roll
\* handler reports a start as a success is taken only for a startGame call that
\* submitted: a failed start is never reported as a success.
C21_FailureNotifiedOnce ==
  [][/\ \A c \in DOMAIN calls' :
          (/\ calls'[c].pc = "done" /\ calls'[c].result # "submitted"
           /\ (c \notin DOMAIN calls \/ calls[c].pc # "done"))
          => error' # Null
     /\ \A r \in DOMAIN rolls :
          (rolls[r].toast # "started" /\ rolls'[r].toast = "started")
          => calls'[rolls'[r].call].result = "submitted"]_vars

\* the number of dice showing an odd face
OddDice(dice) == Cardinality({k \in DOMAIN dice : dice[k] % 2 = 1})

\* C22: for every finished roll of 1, 2 or 3 dice with faces in 1..6, the roll is
\* a win exactly when the parity of the dice sum (even iff an even number of
\* dice show an odd face) is the predicted one, and the payout is 1.95 times
\* the stake for a win and 0 otherwise.
C22_WinAndPayout ==
  \A j \in DOMAIN demoHistory :
    LET g == demoHistory[j]
        sumIsEven == OddDice(g.diceValues) % 2 = 0
        match == (rolls[g.roll].prediction = "even") <=> sumIsEven
    IN /\ Len(g.diceValues) \in {1, 2, 3}
       /\ \A k \in DOMAIN g.diceValues : g.diceValues[k] \in 1..6
       /\ (g.result = "win") <=> match
       /\ (rolls[g.roll].toast = "won") <=> match
       /\ g.payout * 100 = IF match THEN g.bet * 100 * 195 ELSE 0

\* dice [3,5] on a prediction of even with stake 10: a win paying 19.5
C22_Witness ==
  \E j \in DOMAIN demoHistory :
    /\ demoHistory[j].diceValues = <<3, 5>>
    /\ rolls[demoHistory[j].roll].prediction = "even"
    /\ demoHistory[j].bet = 10
    /\ demoHistory[j].result = "win"
    /\ demoHistory[j].payout = 1950

\* C23: in the step in which the ledger executes a startGame transaction, the id
\* it assigns to the new game is the id of the session that the call which sent
\* the transaction recorded, also when that call was made before the game
\* counter was read again after an earlier start.
C23_SessionIdIsLedgerId ==
  [][\A i \in DOMAIN writes :
       (/\ writes[i].fn = "startGame"
        /\ writes[i].state = "submitted" /\ writes'[i].state = "confirmed")
       => \A k \in SessionOf(writes[i].call) : gameHistory[k].id = NextGameId]_vars

\* C24: a roll that was answered with "Game started" is one whose startGame call
\* submitted the start transaction and recorded a session; a call that returned
\* early (contract, wallet or encryption unavailable, an encryption step failed)
\* is never answered with it.
C24_StartedMeansSubmitted ==
  \A r \in DOMAIN rolls :
    rolls[r].toast = "started"
      => /\ rolls[r].call # 0
         /\ WriteOf(rolls[r].call) # 0
         /\ SessionOf(rolls[r].call) # {}

\* C25: every step in which mintTokens, swapETHForROLL, startGame or resolveGame
\* is called while the contract address or the wallet address is missing
\* submits no transaction, sets a non-null error, and leaves the game history
\* and the busy flag as they were.
C25_GuardedOperations ==
  [][(/\ Len(calls') = Len(calls) + 1
      /\ ~isContractAvailable \/ walletAddress = Undefined)
       => /\ calls'[Len(calls')].op
               \in {"mintTokens", "swapETHForROLL", "startGame", "resolveGame"}
          /\ writes' = writes
          /\ error' # Null
          /\ gameHistory' = gameHistory
          /\ Busy' = Busy]_vars

\* mintTokens was refused by its guard while a session exists and an earlier
\* transaction keeps the hook busy
C25_Witness ==
  /\ \E c \in DOMAIN calls :
       calls[c].op = "mintTokens" /\ calls[c].result = "unavailable"
  /\ gameHistory # <<>>
  /\ Busy
  /\ error # Null

\* a transaction the hook sent awaits its signature or its confirmation
TxInFlight == \E i \in DOMAIN writes : writes[i].state \in {"signing", "submitted"}

\* an operation of the hook is in flight: a call has not returned, or a
\* transaction is in flight
InFlight == TxInFlight \/ \E c \in DOMAIN calls : calls[c].pc # "done"

\* C26: the busy flag of the snapshot is true in every state in which a
\* transaction awaits its signature or its confirmation, and false in every
\* state in which nothing is in flight; a later transaction does not turn it off
\* for an earlier one that is unconfirmed.
C26_BusyWhileInFlight ==
  /\ TxInFlight => Busy
  /\ ~InFlight => ~Busy

\* C27: in demo mode neither the ROLL nor the ETH balance is ever negative,
\* however demo rolls and demo swaps interleave.
C27_DemoBalancesNonNegative == rollBalance >= 0 /\ ethBalance >= 0

RECURSIVE SwapsNetRoll(_)
\* what the demo swaps carried out so far have added to the ROLL balance, in
\* hundredths: a * rate for a ETH swapped to ROLL, -a for a ROLL swapped to ETH
SwapsNetRoll(q) ==
  IF q = <<>> THEN 0
  ELSE (IF Head(q).description # "Demo transaction completed" THEN 0
        ELSE IF Head(q).fromToken = "ETH" THEN Head(q).amount * 1000 * 100
        ELSE 0 - Head(q).amount * 100)
       + SwapsNetRoll(Tail(q))

\* C28: in demo mode every finished roll has exactly one record in the history
\* and every record belongs to a finished roll, and the ROLL balance is the
\* initial balance plus the sum over the records of (payout - bet), which is the
\* statistics' netProfit, plus what the swaps carried out have added.
C28_BalanceIsHistoryPlusSwaps ==
  /\ \A r \in DOMAIN rolls :
       Cardinality({j \in DOMAIN demoHistory : demoHistory[j].roll = r})
         = IF rolls[r].toast \in {"won", "lost"} THEN 1 ELSE 0
  /\ \A j \in DOMAIN demoHistory : demoHistory[j].roll \in DOMAIN rolls
  /\ rollBalance = InitialRollBalance * 100 + Stats(demoHistory).netProfit
                     + SwapsNetRoll(swaps)

\* a won roll is in the history and a demo swap has been carried out
C28_Witness ==
  /\ \E j \in DOMAIN demoHistory : demoHistory[j].payout > 0
  /\ \E sw \in DOMAIN swaps : swaps[sw].description = "Demo transaction completed"

\* the session was started by the account that is connected now, on the
\* contract of the chain the wallet is on now
OwnSession(g) ==
  /\ calls[g.call].wallet = walletAddress
  /\ calls[g.call].address = contractAddress

\* C29: while a wallet is connected, every session in the gameHistory the hook
\* returns, and every session getGameDetails returns, was started by the
\* connected account on the current chain; sessions of a previous account or
\* chain are no longer returned.
C29_HistoryOfCurrentAccount ==
  walletAddress # Undefined
    => /\ \A i \in DOMAIN gameHistory : OwnSession(gameHistory[i])
       /\ \A g \in GameIds :
            getGameDetails(g) # 0 => OwnSession(gameHistory[getGameDetails(g)])

\* C30: in every state of the page, whatever sequence of connect, disconnect,
\* account change and navigation led to it, the Game page is shown only while
\* the page holds the wallet as connected.
C30_GameOnlyWhileConnected == currentPage = "Game" => walletConnected

====
